---- MODULE Spec2Model ----
(***************************************************************************)
(* Model of _shop_getter.py: one run of main(), step by step.  Every       *)
(* blocking network call is one action; the response (or the transport     *)
(* error) it gets is the action's input.  Python strings that the code     *)
(* parses (the Location header, the CLIENT_VERSION setting, tokens) are    *)
(* sequences of one-character strings; Python/JSON values are tagged       *)
(* records [t, v].                                                         *)
(***************************************************************************)
EXTENDS Integers, Sequences, FiniteSets, TLC

VARIABLES
    SSID,               \* os.getenv("SSID")
    PROXY,              \* os.getenv("PROXY")
    CLIENT_VERSION,     \* the CLIENT_VERSION setting as the environment holds it
    pc,                 \* position of the run inside main()
    session,            \* the requests.Session of the run
    access_token, entitlements_token, puuid, client_version, storefront,
    attempt,            \* index of the next entry of get_storefront's list
    reply,              \* what the last request came back with
    trace,              \* every request issued so far, in order
    seen,               \* the statuses the storefront attempts returned so far
    out                 \* everything printed so far, in order

vars == <<SSID, PROXY, CLIENT_VERSION, pc, session, access_token,
          entitlements_token, puuid, client_version, storefront, attempt,
          reply, trace, seen, out>>

----------------------------------------------------------------------------
(* Bounds of the model *)

\* longest CLIENT_VERSION setting, in characters
MaxVersionLen == 3

\* longest Location header of the token-extraction specification, in pieces
MaxPieces == 4

----------------------------------------------------------------------------
(* Python and JSON values *)

None == [t |-> "None", v |-> <<>>]
Unset == [t |-> "unset", v |-> <<>>]
Str(s) == [t |-> "str", v |-> s]
List(s) == [t |-> "list", v |-> s]
\* a dict is the sequence of its <<key, value>> items
Dict(items) == [t |-> "dict", v |-> items]

HasKey(d, k) == \E i \in 1..Len(d.v) : d.v[i][1] = k
Item(d, k) == d.v[CHOOSE i \in 1..Len(d.v) : d.v[i][1] = k][2]

\* bool(x) of Python
Truthy(x) ==
    CASE x.t = "None" -> FALSE
      [] x.t = "unset" -> FALSE
      [] OTHER -> Len(x.v) > 0

\* x[k]: <<value, exception type>>, the type "" when nothing is raised
Subscript(x, k) ==
    IF x.t = "dict"
    THEN IF HasKey(x, k) THEN <<Item(x, k), "">> ELSE <<None, "KeyError">>
    ELSE <<None, "TypeError">>

\* x.get(k, default)
Get(x, k, default) ==
    IF x.t = "dict"
    THEN <<IF HasKey(x, k) THEN Item(x, k) ELSE default, "">>
    ELSE <<None, "AttributeError">>

----------------------------------------------------------------------------
(* Strings as character sequences *)

Whitespace == {" ", "\t"}

RECURSIVE LStrip(_)
LStrip(s) ==
    IF s # <<>> /\ Head(s) \in Whitespace THEN LStrip(Tail(s)) ELSE s

RECURSIVE RStrip(_)
RStrip(s) ==
    IF s # <<>> /\ s[Len(s)] \in Whitespace
    THEN RStrip(SubSeq(s, 1, Len(s) - 1))
    ELSE s

\* str.strip()
Strip(s) == RStrip(LStrip(s))

----------------------------------------------------------------------------
(* Module-level settings and constants of _shop_getter.py *)

\* os.getenv(name, default)
Getenv(x, default) == IF x.t = "None" THEN default ELSE x

\* the setting with only its leading whitespace removed
StripOrNone_LeftOnly(s) == IF LStrip(s.v) # <<>> THEN Str(LStrip(s.v)) ELSE None

\* s.strip() or None
StripOrNone(s) == IF Strip(s.v) # <<>> THEN Str(Strip(s.v)) ELSE None

CLIENT_VERSION_OVERRIDE == StripOrNone(Getenv(CLIENT_VERSION, Str(<<>>)))

SHARD == "ap"
AUTH_COOKIES_URL == "https://auth.riotgames.com/api/v1/authorization"
AUTH_REAUTH_URL == "https://auth.riotgames.com/authorize"
ENTITLEMENTS_URL == "https://entitlements.auth.riotgames.com/api/token/v1"
USERINFO_URL == "https://auth.riotgames.com/userinfo"
VERSION_URL == "https://valorant-api.com/v1/version"
CLIENT_PLATFORM == "ew0KCSJwbGF0Zm9ybVR5cGUiOiAiUEMiLA0KCSJwbGF0Zm9ybU9TIjogIldpbmRvd3MiLA0KCSJwbGF0Zm9ybU9TVmVyc2lvbiI6ICIxMC4wLjE5MDQyLjEuMjU2LjY0Yml0IiwNCgkicGxhdGZvcm1DaGlwc2V0IjogIlVua25vd24iDQp9"
USER_AGENT == "RiotClient/70.0.0.4888690.4873386 rso-auth (Windows;10;;Professional, x64)"

\* "release-12.02-shipping-9-4226954"
FALLBACK_VERSION ==
    Str(<<"r","e","l","e","a","s","e","-","1","2",".","0","2","-",
          "s","h","i","p","p","i","n","g","-","9","-",
          "4","2","2","6","9","5","4">>)

\* the list with its first entry pasted over the last
STOREFRONT_ATTEMPTS_V2Twice ==
    << [method |-> "GET",  url |-> "https://pd.{SHARD}.a.pvp.net/store/v2/storefront/{puuid}"],
       [method |-> "POST", url |-> "https://pd.{SHARD}.a.pvp.net/store/v3/storefront/{puuid}"],
       [method |-> "GET",  url |-> "https://pd.{SHARD}.a.pvp.net/store/v2/storefront/{puuid}"] >>

\* the (method, url) list of get_storefront; the url ends in the puuid
STOREFRONT_ATTEMPTS ==
    << [method |-> "GET",  url |-> "https://pd.{SHARD}.a.pvp.net/store/v2/storefront/{puuid}"],
       [method |-> "POST", url |-> "https://pd.{SHARD}.a.pvp.net/store/v3/storefront/{puuid}"],
       [method |-> "GET",  url |-> "https://pd.{SHARD}.a.pvp.net/store/v1/storefront/{puuid}"] >>

----------------------------------------------------------------------------
(* re.search(r"access_token=([^&]+)", s) *)

KEY == <<"a","c","c","e","s","s","_","t","o","k","e","n","=">>

KeyAt(s, i) ==
    /\ i + Len(KEY) - 1 <= Len(s)
    /\ SubSeq(s, i, i + Len(KEY) - 1) = KEY

\* the class [^&] without its "+": one character
RunEnd_OneChar(s, k) == k

\* the last index of the greedy run [^&]+ that starts at k
RECURSIVE RunEnd(_, _)
RunEnd(s, k) ==
    IF k + 1 <= Len(s) /\ s[k + 1] # "&" THEN RunEnd(s, k + 1) ELSE k

\* the positions where the whole pattern matches
MatchStarts(s) ==
    { i \in 1..Len(s) : /\ KeyAt(s, i)
                        /\ i + Len(KEY) <= Len(s)
                        /\ s[i + Len(KEY)] # "&" }

Min(S) == CHOOSE i \in S : \A j \in S : i <= j

\* the pattern with "*" for "+": access_token=([^&]*) matches an empty value
re_search_EmptyAllowed(s) ==
    IF { i \in 1..Len(s) : KeyAt(s, i) } = {}
    THEN None
    ELSE LET k == Min({ i \in 1..Len(s) : KeyAt(s, i) }) + Len(KEY)
         IN  IF k > Len(s) \/ s[k] = "&"
             THEN Str(<<>>)
             ELSE Str(SubSeq(s, k, RunEnd(s, k)))

\* match.group(1) of the leftmost match, None when there is no match
re_search(s) ==
    IF MatchStarts(s) = {}
    THEN None
    ELSE LET k == Min(MatchStarts(s)) + Len(KEY)
         IN  Str(SubSeq(s, k, RunEnd(s, k)))

----------------------------------------------------------------------------
(* Responses, exceptions and printed output *)

NoBody == [ok |-> FALSE, val |-> None]
Json(x) == [ok |-> TRUE, val |-> x]
Response(status, location, body) ==
    [status |-> status, location |-> location, body |-> body]
NoResp == Response(0, None, NoBody)

\* what a request comes back with: a response, or a transport-level exception
Returned(r) == [exc |-> "", resp |-> r]
Failed(type) == [exc |-> type, resp |-> NoResp]

NoExc == [type |-> "", msg |-> "", status |-> 0]
Exc(type, msg, status) == [type |-> type, msg |-> msg, status |-> status]
\* Exception(f"認証失敗 (status: {resp.status_code})")
AuthFailed(status) == Exc("Exception", "authentication failed (status: {status})", status)
\* Exception("アクセストークン取得失敗")
TokenNotFound == Exc("Exception", "access token not found", 0)
\* Exception("ストアフロント取得失敗")
StorefrontFailed == Exc("Exception", "storefront retrieval failed", 0)

\* the result of a call: the value returned, or the exception raised
Ok(x) == [value |-> x, exc |-> NoExc]
Raised(e) == [value |-> None, exc |-> e]
IsRaised(r) == r.exc.type # ""

\* resp.raise_for_status()
RaisesForStatus(status) == status >= 400 /\ status < 600

\* resp.json()
ResponseJson(r) ==
    IF r.body.ok THEN Ok(r.body.val) ELSE Raised(Exc("JSONDecodeError", "", 0))

\* resp.headers.get("Location", "")
LocationOf(r) == IF r.location.t = "None" THEN <<>> ELSE r.location.v

\* print("エラー: .env に SSID が設定されていません。")
ConfigErrorLine == [kind |-> "config_error", e |-> NoExc, doc |-> Unset]
\* print("エラー: プロキシ接続失敗。PROXY設定を確認してください。")
ProxyErrorLine == [kind |-> "proxy_error", e |-> NoExc, doc |-> Unset]
\* print(f"エラー: {e}")
ErrorLine(e) == [kind |-> "error", e |-> e, doc |-> Unset]
\* print(json.dumps(storefront, indent=2, ensure_ascii=False))
StorefrontDump(doc) == [kind |-> "storefront", e |-> NoExc, doc |-> doc]

\* no clause for ProxyError: every exception printed by the generic clause
Handler_NoProxyClause(e) == ErrorLine(e)

\* the except clauses of main()
Handler(e) ==
    IF e.type = "ProxyError" THEN ProxyErrorLine ELSE ErrorLine(e)

----------------------------------------------------------------------------
(* The functions of _shop_getter.py, on the response they receive *)

NoSession == [proxies |-> None, cookies |-> Unset, user_agent |-> ""]

\* the credential cookie put into the jar when the session is made
get_session_WithCookie ==
    [proxies |-> IF Truthy(PROXY) THEN PROXY ELSE None,
     cookies |-> SSID,
     user_agent |-> USER_AGENT]

get_session ==
    [proxies |-> IF Truthy(PROXY) THEN PROXY ELSE None,
     cookies |-> Unset,
     user_agent |-> USER_AGENT]

\* the entitlement header filled with the access token
Request_TokenAsEntitlement(method, url, arg, authorization, entitlements, platform, version) ==
    [method |-> method, url |-> url, puuid |-> arg,
     Authorization |-> authorization,
     Entitlements |-> authorization,
     ClientPlatform |-> platform,
     ClientVersion |-> version,
     ssid |-> session.cookies,
     proxies |-> session.proxies,
     user_agent |-> session.user_agent]

\* a request as it leaves the session: the cookie "ssid" of the jar, the proxy
\* and the User-Agent come from the session, the rest from the call
Request(method, url, arg, authorization, entitlements, platform, version) ==
    [method |-> method, url |-> url, puuid |-> arg,
     Authorization |-> authorization,
     Entitlements |-> entitlements,
     ClientPlatform |-> platform,
     ClientVersion |-> version,
     ssid |-> session.cookies,
     proxies |-> session.proxies,
     user_agent |-> session.user_agent]

\* a transport-level exception, as raised by requests
Transport(type) == Exc(type, "", 0)

\* every common redirect accepted
REDIRECTS_With302 == {301, 302, 303}

\* the statuses authenticate accepts
REDIRECTS == {301, 303}

\* the match is not checked: "return match and match.group(1)"
authenticate_NoMatchCheck(r) ==
    IF r.status \notin {301, 303}
    THEN Raised(AuthFailed(r.status))
    ELSE Ok(re_search(LocationOf(r)))

\* a missing token reported as a status failure
authenticate_StatusErrorOnNoMatch(r) ==
    IF r.status \notin {301, 303} \/ re_search(LocationOf(r)) = None
    THEN Raised(AuthFailed(r.status))
    ELSE Ok(re_search(LocationOf(r)))

\* authenticate, lines 45-50, on the response of the reauthorization request
authenticate(r) ==
    IF r.status \notin REDIRECTS
    THEN Raised(AuthFailed(r.status))
    ELSE IF re_search(LocationOf(r)) = None
         THEN Raised(TokenNotFound)
         ELSE Ok(re_search(LocationOf(r)))

\* resp.raise_for_status() left out
JsonField_NoRaiseForStatus(r, key) ==
    IF IsRaised(ResponseJson(r))
    THEN ResponseJson(r)
    ELSE LET x == Subscript(ResponseJson(r).value, key)
         IN  IF x[2] # "" THEN Raised(Exc(x[2], key, 0)) ELSE Ok(x[1])

\* resp.raise_for_status(); return resp.json()[key]
JsonField(r, key) ==
    IF RaisesForStatus(r.status)
    THEN Raised(Exc("HTTPError", "", r.status))
    ELSE IF IsRaised(ResponseJson(r))
         THEN ResponseJson(r)
         ELSE LET x == Subscript(ResponseJson(r).value, key)
              IN  IF x[2] # "" THEN Raised(Exc(x[2], key, 0)) ELSE Ok(x[1])

get_entitlements_token(r) == JsonField(r, "entitlements_token")

get_puuid(r) == JsonField(r, "sub")

\* the live value returned without the "if version" test
VersionLookup_NoEmptyCheck(o) ==
    IF o.exc # ""
    THEN FALLBACK_VERSION
    ELSE IF o.resp.status # 200 \/ IsRaised(ResponseJson(o.resp))
         THEN FALLBACK_VERSION
         ELSE LET data == Get(ResponseJson(o.resp).value, "data", Dict(<<>>))
              IN  IF data[2] # ""
                  THEN FALLBACK_VERSION
                  ELSE LET version == Get(data[1], "riotClientVersion", None)
                       IN  IF version[2] = ""
                           THEN version[1]
                           ELSE FALLBACK_VERSION

\* get_client_version, lines 72-80: o is what the lookup came back with
VersionLookup(o) ==
    IF o.exc # ""
    THEN FALLBACK_VERSION
    ELSE IF o.resp.status # 200 \/ IsRaised(ResponseJson(o.resp))
         THEN FALLBACK_VERSION
         ELSE LET data == Get(ResponseJson(o.resp).value, "data", Dict(<<>>))
              IN  IF data[2] # ""
                  THEN FALLBACK_VERSION
                  ELSE LET version == Get(data[1], "riotClientVersion", None)
                       IN  IF version[2] = "" /\ Truthy(version[1])
                           THEN version[1]
                           ELSE FALLBACK_VERSION

\* the override is never consulted: the lookup always runs
HasOverride_Never == FALSE

\* get_client_version, lines 70-71: whether the override answers
HasOverride == Truthy(CLIENT_VERSION_OVERRIDE)

\* a 200 does not end the loop: the last attempt decides
StorefrontStep_NoShortCircuit(i, r) ==
    IF i < Len(STOREFRONT_ATTEMPTS)
    THEN [do |-> "next", res |-> Ok(None)]
    ELSE IF r.status # 200
         THEN [do |-> "raise", res |-> Raised(StorefrontFailed)]
         ELSE IF IsRaised(ResponseJson(r))
              THEN [do |-> "raise", res |-> ResponseJson(r)]
              ELSE [do |-> "return", res |-> ResponseJson(r)]

\* the exhaustion message carries the last status
StorefrontStep_KeepsCause(i, r) ==
    IF r.status = 200
    THEN IF IsRaised(ResponseJson(r))
         THEN [do |-> "raise", res |-> ResponseJson(r)]
         ELSE [do |-> "return", res |-> ResponseJson(r)]
    ELSE IF i < Len(STOREFRONT_ATTEMPTS)
         THEN [do |-> "next", res |-> Ok(None)]
         ELSE [do |-> "raise",
               res |-> Raised(Exc("Exception", "storefront retrieval failed", r.status))]

\* the status is not looked at: any JSON body is the result
StorefrontStep_AnyStatus(i, r) ==
    IF ~IsRaised(ResponseJson(r))
    THEN [do |-> "return", res |-> ResponseJson(r)]
    ELSE IF i < Len(STOREFRONT_ATTEMPTS)
         THEN [do |-> "next", res |-> Ok(None)]
         ELSE [do |-> "raise", res |-> Raised(StorefrontFailed)]

\* a 200 whose body is not JSON treated like a non-200: on to the next entry
StorefrontStep_SkipBadJson(i, r) ==
    IF r.status = 200 /\ ~IsRaised(ResponseJson(r))
    THEN [do |-> "return", res |-> ResponseJson(r)]
    ELSE IF i < Len(STOREFRONT_ATTEMPTS)
         THEN [do |-> "next", res |-> Ok(None)]
         ELSE [do |-> "raise", res |-> Raised(StorefrontFailed)]

\* get_storefront, lines 96-98, after attempt i got response r:
\* "return" the document, "next" attempt, or "raise"
StorefrontStep(i, r) ==
    IF r.status = 200
    THEN IF IsRaised(ResponseJson(r))
         THEN [do |-> "raise", res |-> ResponseJson(r)]
         ELSE [do |-> "return", res |-> ResponseJson(r)]
    ELSE IF i < Len(STOREFRONT_ATTEMPTS)
         THEN [do |-> "next", res |-> Ok(None)]
         ELSE [do |-> "raise", res |-> Raised(StorefrontFailed)]

----------------------------------------------------------------------------
(* Inputs: the settings of the environment and what the servers answer *)

SeqsUpTo(A, n) == UNION { [1..k -> A] : k \in 0..n }

SSIDs == {None, Str(<<>>), Str(<<"s">>)}
PROXYs == {None, Str(<<>>), Str(<<"p">>)}
VersionSettings ==
    {None} \cup { Str(s) : s \in SeqsUpTo({" ", "V"}, MaxVersionLen) }

\* Location headers of the reauthorization response
RunLocations ==
    { None,
      Str(<<"#", "e">>),
      Str(<<"#">> \o KEY),
      Str(<<"#">> \o KEY \o <<"&", "i">>),
      Str(<<"#">> \o KEY \o <<"A">>),
      Str(<<"#">> \o KEY \o <<"B", "&", "i">>) }

TransportErrors ==
    {"ConnectionError"} \cup
    (IF Truthy(session.proxies) THEN {"ProxyError"} ELSE {})

Failures == { Failed(t) : t \in TransportErrors }

InitOutcomes ==
    { Returned(Response(s, None, NoBody)) : s \in {200, 403, 500} }
    \cup Failures

ReauthOutcomes ==
    { Returned(Response(s, l, NoBody)) :
        s \in {200, 301, 302, 303, 307}, l \in RunLocations }
    \cup Failures

FieldBodies(key, x) ==
    { NoBody, Json(List(<<>>)), Json(Dict(<<>>)),
      Json(Dict(<< <<key, None>> >>)), Json(Dict(<< <<key, Str(x)>> >>)) }

EntitlementOutcomes ==
    { Returned(Response(s, None, b)) :
        s \in {200, 302, 404}, b \in FieldBodies("entitlements_token", <<"E">>) }
    \cup Failures

UserinfoOutcomes ==
    { Returned(Response(s, None, b)) :
        s \in {200, 302, 404}, b \in FieldBodies("sub", <<"P">>) }
    \cup Failures

VersionBodies ==
    { NoBody, Json(List(<<>>)), Json(Dict(<<>>)),
      Json(Dict(<< <<"data", None>> >>)),
      Json(Dict(<< <<"data", Dict(<<>>)>> >>)),
      Json(Dict(<< <<"data", Dict(<< <<"riotClientVersion", None>> >>)>> >>)),
      Json(Dict(<< <<"data", Dict(<< <<"riotClientVersion", Str(<<>>)>> >>)>> >>)),
      Json(Dict(<< <<"data", Dict(<< <<"riotClientVersion", Str(<<"L">>)>> >>)>> >>)) }

VersionOutcomes ==
    { Returned(Response(s, None, b)) : s \in {200, 404}, b \in VersionBodies }
    \cup Failures \cup {Failed("Timeout")}

StorefrontBodies ==
    { NoBody,
      Json(Dict(<< <<"a", Str(<<"1">>)>> >>)),
      Json(Dict(<< <<"SkinsPanelLayout", Dict(<<>>)>> >>)) }

StorefrontOutcomes ==
    { Returned(Response(s, None, b)) :
        s \in {200, 404, 500}, b \in StorefrontBodies }
    \cup Failures

----------------------------------------------------------------------------
(* The run of main() *)

NoReply == Returned(NoResp)

\* a string the code never looks into, held as one piece
Opaque(s) == Str(<<s>>)

Init ==
    /\ SSID \in SSIDs
    /\ PROXY \in PROXYs
    /\ CLIENT_VERSION \in VersionSettings
    /\ pc = "main"
    /\ session = NoSession
    /\ access_token = Unset
    /\ entitlements_token = Unset
    /\ puuid = Unset
    /\ client_version = Unset
    /\ storefront = Unset
    /\ attempt = 0
    /\ reply = NoReply
    /\ trace = <<>>
    /\ seen = <<>>
    /\ out = <<>>

env == <<SSID, PROXY, CLIENT_VERSION>>

\* "except requests.RequestException" in place of "except Exception": any
\* other exception leaves main() uncaught and nothing is printed
Finish_OnlyRequestErrors(e) ==
    IF e.type \in {"ProxyError", "ConnectionError", "Timeout", "HTTPError",
                   "JSONDecodeError"}
    THEN /\ out' = Append(out, Handler(e))
         /\ pc' = "done"
    ELSE /\ out' = out
         /\ pc' = "crashed"

\* an exception reaches the except clauses of main(): one line, and the run ends
Finish(e) ==
    /\ out' = Append(out, Handler(e))
    /\ pc' = "done"

\* "if SSID is None"
MissingCredential_NoneOnly == SSID.t = "None"

\* line 102: "if not SSID"
MissingCredential == ~Truthy(SSID)

\* lines 102-107: the credential check, then get_session()
Main ==
    /\ pc = "main"
    /\ IF MissingCredential
       THEN /\ out' = Append(out, ConfigErrorLine)
            /\ pc' = "done"
            /\ UNCHANGED session
       ELSE /\ session' = get_session
            /\ pc' = "authenticate_post"
            /\ UNCHANGED out
    /\ UNCHANGED <<env, access_token, entitlements_token, puuid, client_version,
                   storefront, attempt, reply, trace, seen>>

\* the init response checked with raise_for_status() before the cookie is set
AuthenticatePost_RaiseForStatus(o) ==
    /\ pc = "authenticate_post"
    /\ trace' = Append(trace, Request("POST", AUTH_COOKIES_URL, Unset,
                                      Unset, Unset, Unset, Unset))
    /\ reply' = o
    /\ IF o.exc # ""
       THEN /\ Finish(Transport(o.exc))
            /\ UNCHANGED session
       ELSE IF RaisesForStatus(o.resp.status)
            THEN /\ Finish(Exc("HTTPError", "", o.resp.status))
                 /\ UNCHANGED session
            ELSE /\ session' = [session EXCEPT !.cookies = SSID]
                 /\ pc' = "authenticate_get"
                 /\ UNCHANGED out
    /\ UNCHANGED <<env, access_token, entitlements_token, puuid, client_version,
                   storefront, attempt, seen>>

\* lines 42-43: the authorization-init POST, then the cookie
AuthenticatePost(o) ==
    /\ pc = "authenticate_post"
    /\ trace' = Append(trace, Request("POST", AUTH_COOKIES_URL, Unset,
                                      Unset, Unset, Unset, Unset))
    /\ reply' = o
    /\ IF o.exc # ""
       THEN /\ Finish(Transport(o.exc))
            /\ UNCHANGED session
       ELSE /\ session' = [session EXCEPT !.cookies = SSID]
            /\ pc' = "authenticate_get"
            /\ UNCHANGED out
    /\ UNCHANGED <<env, access_token, entitlements_token, puuid, client_version,
                   storefront, attempt, seen>>

\* lines 44-50: the reauthorization GET and the token in its Location
AuthenticateGet(o) ==
    /\ pc = "authenticate_get"
    /\ trace' = Append(trace, Request("GET", AUTH_REAUTH_URL, Unset,
                                      Unset, Unset, Unset, Unset))
    /\ reply' = o
    /\ LET r == IF o.exc # "" THEN Raised(Transport(o.exc))
                ELSE authenticate(o.resp)
       IN  IF IsRaised(r)
           THEN /\ Finish(r.exc)
                /\ UNCHANGED access_token
           ELSE /\ access_token' = r.value
                /\ pc' = "get_entitlements_token"
                /\ UNCHANGED out
    /\ UNCHANGED <<env, session, entitlements_token, puuid, client_version,
                   storefront, attempt, seen>>

\* lines 53-60
GetEntitlementsToken(o) ==
    /\ pc = "get_entitlements_token"
    /\ trace' = Append(trace, Request("POST", ENTITLEMENTS_URL, Unset,
                                      access_token, Unset, Unset, Unset))
    /\ reply' = o
    /\ LET r == IF o.exc # "" THEN Raised(Transport(o.exc))
                ELSE get_entitlements_token(o.resp)
       IN  IF IsRaised(r)
           THEN /\ Finish(r.exc)
                /\ UNCHANGED entitlements_token
           ELSE /\ entitlements_token' = r.value
                /\ pc' = "get_puuid"
                /\ UNCHANGED out
    /\ UNCHANGED <<env, session, access_token, puuid, client_version,
                   storefront, attempt, seen>>

\* lines 63-66
GetPuuid(o) ==
    /\ pc = "get_puuid"
    /\ trace' = Append(trace, Request("GET", USERINFO_URL, Unset,
                                      access_token, Unset, Unset, Unset))
    /\ reply' = o
    /\ LET r == IF o.exc # "" THEN Raised(Transport(o.exc))
                ELSE get_puuid(o.resp)
       IN  IF IsRaised(r)
           THEN /\ Finish(r.exc)
                /\ UNCHANGED puuid
           ELSE /\ puuid' = r.value
                /\ pc' = "get_client_version"
                /\ UNCHANGED out
    /\ UNCHANGED <<env, session, access_token, entitlements_token,
                   client_version, storefront, attempt, seen>>

\* lines 69-80: the override, or the live lookup with its fallback
GetClientVersion ==
    /\ pc = "get_client_version"
    /\ IF HasOverride
       THEN /\ client_version' = CLIENT_VERSION_OVERRIDE
            /\ UNCHANGED <<trace, reply>>
       ELSE \E o \in VersionOutcomes :
            /\ trace' = Append(trace, Request("GET", VERSION_URL, Unset,
                                              Unset, Unset, Unset, Unset))
            /\ reply' = o
            /\ client_version' = VersionLookup(o)
    /\ pc' = "get_storefront"
    /\ attempt' = 1
    /\ UNCHANGED <<env, session, access_token, entitlements_token, puuid,
                   storefront, seen, out>>

\* lines 90-98 and 113: one turn of the loop of get_storefront; the document
\* it returns is printed
GetStorefront(o) ==
    /\ pc = "get_storefront"
    /\ trace' = Append(trace,
                       Request(STOREFRONT_ATTEMPTS[attempt].method,
                               STOREFRONT_ATTEMPTS[attempt].url, puuid,
                               access_token, entitlements_token,
                               Opaque(CLIENT_PLATFORM), client_version))
    /\ reply' = o
    /\ seen' = IF o.exc # "" THEN seen ELSE Append(seen, o.resp.status)
    /\ LET step == IF o.exc # ""
                   THEN [do |-> "raise", res |-> Raised(Transport(o.exc))]
                   ELSE StorefrontStep(attempt, o.resp)
       IN  CASE step.do = "return" ->
                  /\ storefront' = step.res.value
                  /\ out' = Append(out, StorefrontDump(step.res.value))
                  /\ pc' = "done"
                  /\ UNCHANGED attempt
             [] step.do = "next" ->
                  /\ attempt' = attempt + 1
                  /\ UNCHANGED <<pc, out, storefront>>
             [] OTHER ->
                  /\ Finish(step.res.exc)
                  /\ UNCHANGED <<storefront, attempt>>
    /\ UNCHANGED <<env, session, access_token, entitlements_token, puuid,
                   client_version>>

Next ==
    \/ Main
    \/ \E o \in InitOutcomes : AuthenticatePost(o)
    \/ \E o \in ReauthOutcomes : AuthenticateGet(o)
    \/ \E o \in EntitlementOutcomes : GetEntitlementsToken(o)
    \/ \E o \in UserinfoOutcomes : GetPuuid(o)
    \/ GetClientVersion
    \/ \E o \in StorefrontOutcomes : GetStorefront(o)

Spec == Init /\ [][Next]_vars

----------------------------------------------------------------------------
(* Token extraction on its own: the run stands before the reauthorization   *)
(* request, and the redirect it receives carries any Location built from    *)
(* up to MaxPieces pieces.                                                  *)

KEY_NAME == <<"a","c","c","e","s","s","_","t","o","k","e","n">>
Pieces == {KEY, KEY_NAME, <<"&">>, <<"=">>, <<"A">>}

RECURSIVE Flatten(_)
Flatten(ps) == IF ps = <<>> THEN <<>> ELSE Head(ps) \o Flatten(Tail(ps))

ExtractLocations ==
    {None} \cup { Str(Flatten(ps)) : ps \in SeqsUpTo(Pieces, MaxPieces) }

ExtractOutcomes ==
    { Returned(Response(s, l, NoBody)) : s \in {301, 303}, l \in ExtractLocations }

\* the state after Main and AuthenticatePost with a credential and no proxy
InitExtract ==
    /\ SSID = Str(<<"s">>)
    /\ PROXY = None
    /\ CLIENT_VERSION = None
    /\ pc = "authenticate_get"
    /\ session = [get_session EXCEPT !.cookies = SSID]
    /\ access_token = Unset
    /\ entitlements_token = Unset
    /\ puuid = Unset
    /\ client_version = Unset
    /\ storefront = Unset
    /\ attempt = 0
    /\ reply = Returned(Response(200, None, NoBody))
    /\ trace = << [Request("POST", AUTH_COOKIES_URL, Unset,
                           Unset, Unset, Unset, Unset) EXCEPT !.ssid = Unset] >>
    /\ seen = <<>>
    /\ out = <<>>

NextExtract == \E o \in ExtractOutcomes : AuthenticateGet(o)

SpecExtract == InitExtract /\ [][NextExtract]_vars

----------------------------------------------------------------------------
(* Vocabulary of the properties *)

Last(s) == s[Len(s)]

\* k occurs in s as a contiguous run
Contains(s, k) ==
    \E i \in 1..Len(s) :
        /\ i + Len(k) - 1 <= Len(s)
        /\ \A j \in 1..Len(k) : s[i + j - 1] = k[j]

IsStorefront(q) ==
    q.url \in { "https://pd.{SHARD}.a.pvp.net/store/v2/storefront/{puuid}",
                "https://pd.{SHARD}.a.pvp.net/store/v3/storefront/{puuid}",
                "https://pd.{SHARD}.a.pvp.net/store/v1/storefront/{puuid}" }

StorefrontRequests == SelectSeq(trace, IsStorefront)

\* the run is over: it has ended and no step can follow
Terminated == pc = "done" /\ ~ENABLED Next

\* the last request was the reauthorization request and it got a response
ReauthAnswered ==
    /\ trace # <<>>
    /\ Last(trace).url = AUTH_REAUTH_URL
    /\ reply.exc = ""

----------------------------------------------------------------------------
(* C1: no step proceeds past a failed prerequisite.  In every step that    *)
(* issues a request nothing has failed before (no error line was printed,  *)
(* the run has not ended); the entitlement request is issued only when     *)
(* authenticate has returned a token, the user-info request only when the  *)
(* entitlement token is there too, the version lookup and every storefront *)
(* request only when the account identifier is there as well; and a step   *)
(* that prints ends the run.                                               *)
C1_Step ==
    /\ trace' # trace =>
         /\ out = <<>>
         /\ pc # "done"
         /\ LET q == Last(trace')
            IN  /\ q.url = ENTITLEMENTS_URL =>
                     /\ access_token.t = "str"
                     /\ access_token.v # <<>>
                /\ q.url = USERINFO_URL =>
                     /\ access_token.t = "str"
                     /\ entitlements_token # Unset
                /\ (q.url = VERSION_URL \/ IsStorefront(q)) =>
                     /\ access_token.t = "str"
                     /\ entitlements_token # Unset
                     /\ puuid # Unset
    /\ out' # <<>> => pc' = "done"

C1_NoStepPastFailedPrerequisite == [][C1_Step]_vars

\* the entitlement step failed and the run stopped after three requests
C1_Witness ==
    /\ Terminated
    /\ Len(trace) = 3
    /\ Last(trace).url = ENTITLEMENTS_URL
    /\ Len(out) = 1
    /\ out[1].kind = "error"

(* C2: a reauthorization response with a status outside {301, 303} ends    *)
(* the run with the handshake-failure line that carries that status; no    *)
(* access token is produced and the reauthorization request stays the last *)
(* request of the run.                                                     *)
C2_HandshakeFailureCarriesStatus ==
    (ReauthAnswered /\ reply.resp.status \notin {301, 303}) =>
        /\ Terminated
        /\ Len(out) = 1
        /\ out[1].kind = "error"
        /\ out[1].e.type = "Exception"
        /\ out[1].e.msg = "authentication failed (status: {status})"
        /\ out[1].e.status = reply.resp.status
        /\ access_token = Unset
        /\ Len(trace) = 2

\* a 302 with a well-formed token in its Location is refused all the same
C2_Witness ==
    /\ ReauthAnswered
    /\ reply.resp.status = 302
    /\ reply.resp.location = Str(<<"#">> \o KEY \o <<"A">>)
    /\ pc = "done"

(* C3: a 301 or 303 whose Location header is absent or does not contain    *)
(* "access_token=" ends the run with the token-extraction line, not the    *)
(* status line, and nothing is requested afterwards.                       *)
C3_RedirectWithoutToken ==
    ( /\ ReauthAnswered
      /\ reply.resp.status \in {301, 303}
      /\ \/ reply.resp.location = None
         \/ ~Contains(reply.resp.location.v, KEY) ) =>
        /\ Terminated
        /\ Len(out) = 1
        /\ out[1].kind = "error"
        /\ out[1].e.type = "Exception"
        /\ out[1].e.msg = "access token not found"
        /\ access_token = Unset
        /\ Len(trace) = 2

C3_Witness ==
    /\ ReauthAnswered
    /\ reply.resp.status = 303
    /\ reply.resp.location = Str(<<"#", "e">>)
    /\ pc = "done"

(* C4: when the Location is P + "access_token=" + T + R, P without         *)
(* "access_token=", T non-empty and without "&", R empty or starting with  *)
(* "&", authenticate returns exactly T.                                    *)
C4_TokenIsExactlyT ==
    (ReauthAnswered /\ reply.resp.status \in {301, 303}
                    /\ reply.resp.location # None) =>
        LET loc == reply.resp.location.v
        IN  \A p \in 0..Len(loc), n \in 1..Len(loc) :
              LET P == SubSeq(loc, 1, p)
                  T == SubSeq(loc, p + Len(KEY) + 1, p + Len(KEY) + n)
                  R == SubSeq(loc, p + Len(KEY) + n + 1, Len(loc))
              IN  ( /\ p + Len(KEY) + n <= Len(loc)
                    /\ SubSeq(loc, p + 1, p + Len(KEY)) = KEY
                    /\ ~Contains(P, KEY)
                    /\ \A i \in 1..Len(T) : T[i] # "&"
                    /\ (R = <<>> \/ Head(R) = "&") ) =>
                  /\ pc = "get_entitlements_token"
                  /\ out = <<>>
                  /\ access_token = Str(T)

\* P non-empty and T longer than one character
C4_Witness ==
    /\ ReauthAnswered
    /\ reply.resp.location = Str(<<"A">> \o KEY \o <<"A", "=">>)
    /\ access_token = Str(<<"A", "=">>)

(* C5: the storefront attempts go GET v2, POST v3, GET v1; attempt k+1   *)
(* follows only a status other than 200 of attempt k; the first 200 ends   *)
(* the sequence, its JSON body is the result, and no storefront request    *)
(* follows it.                                                             *)
C5_StorefrontOrder ==
    LET sf == StorefrontRequests
    IN  /\ Len(sf) <= 3
        /\ Len(sf) >= 1 =>
             /\ sf[1].method = "GET"
             /\ sf[1].url = "https://pd.{SHARD}.a.pvp.net/store/v2/storefront/{puuid}"
        /\ Len(sf) >= 2 =>
             /\ sf[2].method = "POST"
             /\ sf[2].url = "https://pd.{SHARD}.a.pvp.net/store/v3/storefront/{puuid}"
        /\ Len(sf) >= 3 =>
             /\ sf[3].method = "GET"
             /\ sf[3].url = "https://pd.{SHARD}.a.pvp.net/store/v1/storefront/{puuid}"
        /\ Len(seen) <= Len(sf)
        /\ \A k \in 1..Len(sf) - 1 : k <= Len(seen) /\ seen[k] # 200
        /\ \A k \in 1..Len(seen) : seen[k] = 200 =>
             /\ k = Len(sf)
             /\ Terminated
             /\ reply.resp.status = 200
             /\ reply.resp.body.ok =>
                  /\ storefront = reply.resp.body.val
                  /\ out = <<StorefrontDump(reply.resp.body.val)>>
        /\ storefront # Unset => (seen # <<>> /\ Last(seen) = 200)

\* the second attempt returned 200 after the first did not
C5_Witness ==
    /\ seen = <<404, 200>>
    /\ Len(StorefrontRequests) = 2
    /\ storefront = Dict(<< <<"a", Str(<<"1">>)>> >>)
    /\ pc = "done"

(* C6: when all three storefront attempts return a status other than 200,  *)
(* the run ends after exactly three storefront requests with the           *)
(* storefront-exhaustion line, the same line whatever the three statuses.  *)
C6_StorefrontExhaustion ==
    (Len(seen) = 3 /\ \A k \in 1..3 : seen[k] # 200) =>
        /\ Terminated
        /\ Len(StorefrontRequests) = 3
        /\ out = << [kind |-> "error",
                     e |-> [type |-> "Exception",
                            msg |-> "storefront retrieval failed",
                            status |-> 0],
                     doc |-> Unset] >>
        /\ storefront = Unset

C6_Witness ==
    /\ seen = <<404, 500, 404>>
    /\ pc = "done"
    /\ Len(out) = 1

----------------------------------------------------------------------------
(* Whitespace trimming, stated without Strip *)

\* s holds a character that is not whitespace
NonBlank(s) == \E j \in 1..Len(s) : s[j] \notin {" ", "\t"}

\* t is s without its leading and trailing whitespace
IsTrimOf(t, s) ==
    /\ t # <<>>
    /\ Head(t) \notin {" ", "\t"}
    /\ Last(t) \notin {" ", "\t"}
    /\ \E i \in 0..Len(s) :
         /\ i + Len(t) <= Len(s)
         /\ SubSeq(s, i + 1, i + Len(t)) = t
         /\ \A j \in 1..i : s[j] \in {" ", "\t"}
         /\ \A j \in i + Len(t) + 1..Len(s) : s[j] \in {" ", "\t"}

OverrideConfigured == CLIENT_VERSION # None /\ NonBlank(CLIENT_VERSION.v)

VersionRequests == SelectSeq(trace, LAMBDA q : q.url = VERSION_URL)

(* C7, as stated: with an override configured (non-empty after trimming),  *)
(* get_client_version returns the configured string verbatim and requests  *)
(* no version lookup.                                                      *)
C7_OverrideVerbatim ==
    (OverrideConfigured /\ client_version # Unset) =>
        /\ client_version = CLIENT_VERSION
        /\ VersionRequests = <<>>

(* C7, amended: with an override configured, get_client_version returns    *)
(* the configured string without its leading and trailing whitespace, and  *)
(* the run never requests the version lookup.                              *)
C7_OverrideTrimmed ==
    OverrideConfigured =>
        /\ VersionRequests = <<>>
        /\ client_version # Unset =>
             /\ client_version.t = "str"
             /\ IsTrimOf(client_version.v, CLIENT_VERSION.v)

\* an override with whitespace around and inside it, in a run that went on
\* to a storefront attempt
C7_Witness ==
    /\ CLIENT_VERSION = Str(<<" ", "V", " ">>)
    /\ client_version = Str(<<"V">>)
    /\ StorefrontRequests # <<>>

----------------------------------------------------------------------------
\* the last request was the version lookup
LookupDone == trace # <<>> /\ Last(trace).url = VERSION_URL

\* the lookup came back with status 200 and a JSON object whose
\* data.riotClientVersion is a non-empty string
LiveVersionFound ==
    /\ reply.exc = ""
    /\ reply.resp.status = 200
    /\ reply.resp.body.ok
    /\ reply.resp.body.val.t = "dict"
    /\ HasKey(reply.resp.body.val, "data")
    /\ Item(reply.resp.body.val, "data").t = "dict"
    /\ HasKey(Item(reply.resp.body.val, "data"), "riotClientVersion")
    /\ Item(Item(reply.resp.body.val, "data"), "riotClientVersion").t = "str"
    /\ Item(Item(reply.resp.body.val, "data"), "riotClientVersion").v # <<>>

(* C8: without an override, whatever the version lookup comes back with,   *)
(* get_client_version raises nothing: it returns the live value when the   *)
(* response is a 200 with a non-empty version field and the hardcoded      *)
(* fallback otherwise, and the run stands at the first storefront attempt. *)
C8_LookupNeverRaises ==
    (~OverrideConfigured /\ LookupDone) =>
        /\ pc = "get_storefront"
        /\ attempt = 1
        /\ out = <<>>
        /\ client_version =
             IF LiveVersionFound
             THEN Item(Item(reply.resp.body.val, "data"), "riotClientVersion")
             ELSE FALLBACK_VERSION

\* a 200 whose version field is empty
C8_Witness ==
    /\ ~OverrideConfigured
    /\ LookupDone
    /\ reply.resp.status = 200
    /\ reply.resp.body =
         Json(Dict(<< <<"data", Dict(<< <<"riotClientVersion", Str(<<>>)>> >>)>> >>))
    /\ client_version = FALLBACK_VERSION

\* the lookup timed out
C8_WitnessTimeout ==
    /\ LookupDone
    /\ reply.exc = "Timeout"
    /\ client_version = FALLBACK_VERSION
    /\ pc = "get_storefront"

(* C9: a run that has ended has printed exactly one thing, a run that has  *)
(* not has printed nothing; the storefront document is printed only when   *)
(* the last storefront attempt returned 200, and it is the JSON body of    *)
(* that response.                                                          *)
C9_ExactlyOneOutput ==
    /\ pc = "done" => Len(out) = 1
    /\ pc # "done" => out = <<>>
    /\ \A i \in 1..Len(out) :
         /\ out[i].kind \in {"storefront", "error", "proxy_error", "config_error"}
         /\ out[i].kind = "storefront" =>
              /\ seen # <<>>
              /\ Last(seen) = 200
              /\ reply.exc = ""
              /\ reply.resp.status = 200
              /\ reply.resp.body.ok
              /\ out[i].doc = reply.resp.body.val

C9_Witness ==
    /\ pc = "done"
    /\ out = << [kind |-> "storefront", e |-> NoExc,
                 doc |-> Dict(<< <<"SkinsPanelLayout", Dict(<<>>)>> >>)] >>
    /\ seen = <<500, 500, 200>>

(* C10: when the session credential is unset or empty, the run prints the  *)
(* configuration-error line and requests nothing: no session is created    *)
(* and the run ends at once.                                               *)
C10_MissingCredential ==
    (SSID = None \/ SSID = Str(<<>>)) =>
        /\ trace = <<>>
        /\ session = NoSession
        /\ \/ pc = "main" /\ out = <<>>
           \/ /\ Terminated
              /\ out = << [kind |-> "config_error", e |-> NoExc, doc |-> Unset] >>

C10_Witness ==
    /\ SSID = Str(<<>>)
    /\ pc = "done"
    /\ out # <<>>

----------------------------------------------------------------------------
ProxyConfigured == PROXY # None /\ PROXY # Str(<<>>)

\* the last request failed at the proxy
ProxyFailure == ProxyConfigured /\ trace # <<>> /\ reply.exc = "ProxyError"

(* C11, as stated: with a proxy configured, a proxy connection failure on  *)
(* any request, the version lookup included, ends the run with the         *)
(* proxy line.                                                             *)
C11_ProxyFailureAnyHost ==
    ProxyFailure =>
        /\ Terminated
        /\ out = << [kind |-> "proxy_error", e |-> NoExc, doc |-> Unset] >>

(* C11, amended: with a proxy configured, a proxy connection failure on    *)
(* the authorization-init, reauthorization, entitlement, user-info or a    *)
(* storefront request ends the run with the proxy line, which no other     *)
(* failure produces; on the version lookup it is swallowed, the fallback   *)
(* version is taken and the run goes on.                                   *)
C11_ProxyFailureExceptLookup ==
    /\ ProxyFailure =>
         IF Last(trace).url = VERSION_URL
         THEN /\ pc = "get_storefront"
              /\ out = <<>>
              /\ client_version = FALLBACK_VERSION
         ELSE /\ Terminated
              /\ out = << [kind |-> "proxy_error", e |-> NoExc, doc |-> Unset] >>
    /\ \A i \in 1..Len(out) :
         out[i].kind = "proxy_error" => ProxyFailure

\* the proxy fails on the second storefront attempt
C11_Witness ==
    /\ ProxyFailure
    /\ Len(StorefrontRequests) = 2
    /\ Last(trace).url = "https://pd.{SHARD}.a.pvp.net/store/v3/storefront/{puuid}"
    /\ pc = "done"

----------------------------------------------------------------------------
\* the last request went to url and got a response
Answered(url) == trace # <<>> /\ Last(trace).url = url /\ reply.exc = ""

\* the response is a JSON object without the field
FieldMissing(key) ==
    /\ reply.resp.body.ok
    /\ reply.resp.body.val.t = "dict"
    /\ ~HasKey(reply.resp.body.val, key)

\* the run ended on this request with one generic error line
AbortedAfter(n) ==
    /\ Terminated
    /\ Len(trace) = n
    /\ Len(out) = 1
    /\ out[1].kind = "error"

(* C12, as stated: an entitlement response with a status outside 2xx, or   *)
(* with a 2xx status and a JSON body without "entitlements_token", ends    *)
(* the run with an error line before any further request; so does a        *)
(* user-info response with a status outside 2xx.                           *)
C12_NonSuccessIsFatal ==
    /\ ( /\ Answered(ENTITLEMENTS_URL)
         /\ \/ reply.resp.status < 200
            \/ reply.resp.status >= 300
            \/ FieldMissing("entitlements_token") ) => AbortedAfter(3)
    /\ ( /\ Answered(USERINFO_URL)
         /\ (reply.resp.status < 200 \/ reply.resp.status >= 300) ) =>
           AbortedAfter(4)

(* C12, amended: an entitlement response with a 4xx or 5xx status, or with *)
(* any other status and a JSON body without "entitlements_token", ends the *)
(* run with an error line before any further request; so does a user-info  *)
(* response with a 4xx or 5xx status.                                      *)
C12_ErrorStatusIsFatal ==
    /\ ( /\ Answered(ENTITLEMENTS_URL)
         /\ \/ (reply.resp.status >= 400 /\ reply.resp.status <= 599)
            \/ FieldMissing("entitlements_token") ) => AbortedAfter(3)
    /\ ( /\ Answered(USERINFO_URL)
         /\ reply.resp.status >= 400
         /\ reply.resp.status <= 599 ) => AbortedAfter(4)

\* a 200 whose JSON object has no entitlements_token
C12_Witness ==
    /\ Answered(ENTITLEMENTS_URL)
    /\ reply.resp.status = 200
    /\ reply.resp.body = Json(Dict(<<>>))
    /\ pc = "done"
    /\ out[1].e.type = "KeyError"

\* a 404 from the user-info endpoint with a well-formed body
C12_WitnessUserinfo ==
    /\ Answered(USERINFO_URL)
    /\ reply.resp.status = 404
    /\ reply.resp.body = Json(Dict(<< <<"sub", Str(<<"P">>)>> >>))
    /\ pc = "done"

----------------------------------------------------------------------------
(* C13: with a credential, a configured override, a successful handshake,  *)
(* entitlement and user-info step, and a first storefront attempt that     *)
(* returns 200 with a JSON body, the run issues exactly five requests:     *)
(* authorization-init POST, reauthorization GET, entitlement POST,         *)
(* user-info GET, storefront GET v2, and prints that body.                 *)
C13_EndToEndTrace ==
    ( /\ OverrideConfigured
      /\ seen = <<200>>
      /\ reply.resp.body.ok ) =>
        /\ Terminated
        /\ Len(trace) = 5
        /\ trace[1].method = "POST"
        /\ trace[1].url = "https://auth.riotgames.com/api/v1/authorization"
        /\ trace[2].method = "GET"
        /\ trace[2].url = "https://auth.riotgames.com/authorize"
        /\ trace[3].method = "POST"
        /\ trace[3].url = "https://entitlements.auth.riotgames.com/api/token/v1"
        /\ trace[4].method = "GET"
        /\ trace[4].url = "https://auth.riotgames.com/userinfo"
        /\ trace[5].method = "GET"
        /\ trace[5].url = "https://pd.{SHARD}.a.pvp.net/store/v2/storefront/{puuid}"
        /\ out = << [kind |-> "storefront", e |-> NoExc,
                     doc |-> reply.resp.body.val] >>

\* the scenario of the specification: token, entitlement and account
\* identifier obtained, override "V", first attempt 200 with the document
C13_Witness ==
    /\ CLIENT_VERSION = Str(<<"V">>)
    /\ access_token = Str(<<"A">>)
    /\ entitlements_token = Str(<<"E">>)
    /\ puuid = Str(<<"P">>)
    /\ client_version = Str(<<"V">>)
    /\ seen = <<200>>
    /\ storefront = Dict(<< <<"SkinsPanelLayout", Dict(<<>>)>> >>)
    /\ pc = "done"

----------------------------------------------------------------------------
\* the eight requests a run can make
EightRequests ==
    { <<"POST", "https://auth.riotgames.com/api/v1/authorization">>,
      <<"GET",  "https://auth.riotgames.com/authorize">>,
      <<"POST", "https://entitlements.auth.riotgames.com/api/token/v1">>,
      <<"GET",  "https://auth.riotgames.com/userinfo">>,
      <<"GET",  "https://valorant-api.com/v1/version">>,
      <<"GET",  "https://pd.{SHARD}.a.pvp.net/store/v2/storefront/{puuid}">>,
      <<"POST", "https://pd.{SHARD}.a.pvp.net/store/v3/storefront/{puuid}">>,
      <<"GET",  "https://pd.{SHARD}.a.pvp.net/store/v1/storefront/{puuid}">> }

(* C14: nothing is retried.  Every request of a run is one of the eight,   *)
(* no two requests of a run are the same one, so a run issues at most      *)
(* eight; and after an error line nothing is requested again.              *)
C14_NoRetry ==
    /\ \A i \in 1..Len(trace) :
         <<trace[i].method, trace[i].url>> \in EightRequests
    /\ \A i, j \in 1..Len(trace) :
         (trace[i].method = trace[j].method /\ trace[i].url = trace[j].url)
            => i = j
    /\ Len(trace) <= Cardinality(EightRequests)
    /\ out # <<>> => Terminated

\* a run that made all eight requests
C14_Witness ==
    /\ Len(trace) = 8
    /\ seen = <<404, 404, 200>>
    /\ pc = "done"

----------------------------------------------------------------------------
(* The run under the assumption that every request comes back: a step that *)
(* can be taken is taken.                                                  *)
FairSpec == Init /\ [][Next]_vars /\ WF_vars(Next)

(* C15: when every request eventually returns a response or raises, every  *)
(* run eventually ends normally with its one output printed, whether it    *)
(* succeeds or fails.                                                      *)
C15_Terminates == <>(pc = "done" /\ Len(out) = 1)

\* the run ended on an exception that is not a requests exception
C15_Witness ==
    /\ pc = "done"
    /\ Len(out) = 1
    /\ out[1].kind = "error"
    /\ out[1].e.type = "TypeError"

----------------------------------------------------------------------------
(* C16: the credential enters the cookie jar after the authorization-init  *)
(* request has been issued and before the reauthorization request is: the  *)
(* init request leaves a jar without the cookie "ssid", every              *)
(* reauthorization request leaves a jar whose "ssid" is the configured     *)
(* credential, and it follows the init request.                            *)
C16_CookieBetweenInitAndReauth ==
    /\ trace = <<>> => session.cookies = Unset
    /\ \A i \in 1..Len(trace) :
         /\ trace[i].url = "https://auth.riotgames.com/api/v1/authorization" =>
              trace[i].ssid = Unset
         /\ trace[i].url = "https://auth.riotgames.com/authorize" =>
              /\ trace[i].ssid = SSID
              /\ SSID.t = "str"
              /\ SSID.v # <<>>
              /\ i > 1
              /\ trace[i - 1].url = "https://auth.riotgames.com/api/v1/authorization"
              /\ trace[i - 1].ssid = Unset

C16_Witness ==
    /\ Len(trace) >= 2
    /\ trace[1].ssid = Unset
    /\ trace[2].url = "https://auth.riotgames.com/authorize"
    /\ trace[2].ssid = Str(<<"s">>)

----------------------------------------------------------------------------
\* what the requests issued so far carry, against the values the run holds
C17_Headers ==
    \A i \in 1..Len(trace) :
        /\ ( \/ trace[i].url = "https://entitlements.auth.riotgames.com/api/token/v1"
             \/ trace[i].url = "https://auth.riotgames.com/userinfo"
             \/ IsStorefront(trace[i]) ) =>
               /\ access_token.t = "str"
               /\ trace[i].Authorization = access_token
        /\ IsStorefront(trace[i]) =>
               /\ trace[i].Entitlements = entitlements_token
               /\ trace[i].ClientPlatform = Str(<<CLIENT_PLATFORM>>)
               /\ trace[i].ClientVersion = client_version
               /\ trace[i].puuid = puuid

(* C17: the access token, once produced, is never replaced, nor are the    *)
(* entitlement token, the account identifier and the client version; the   *)
(* entitlement, user-info and storefront requests all carry that access    *)
(* token, and every storefront attempt carries the same entitlement token, *)
(* platform descriptor and client version and addresses the same account.  *)
C17_OneTokenPerRun ==
    [][ /\ access_token # Unset => access_token' = access_token
        /\ entitlements_token # Unset => entitlements_token' = entitlements_token
        /\ puuid # Unset => puuid' = puuid
        /\ client_version # Unset => client_version' = client_version
        /\ C17_Headers' ]_vars

\* three storefront attempts were made with token A, entitlement E, account P
C17_Witness ==
    /\ Len(StorefrontRequests) = 3
    /\ \A i \in 1..3 :
         /\ StorefrontRequests[i].Authorization = Str(<<"A">>)
         /\ StorefrontRequests[i].Entitlements = Str(<<"E">>)
         /\ StorefrontRequests[i].puuid = Str(<<"P">>)
         /\ StorefrontRequests[i].ClientVersion = Str(<<"L">>)

----------------------------------------------------------------------------
\* the last request was a storefront attempt
StorefrontAttempted == trace # <<>> /\ IsStorefront(Last(trace))

(* C18: the storefront fallback is for non-200 responses only.  When a     *)
(* storefront attempt raises a transport-level error, or returns 200 with  *)
(* a body that is not JSON, the run ends there with an error line that is  *)
(* not the exhaustion message, and the remaining entries are not tried.    *)
C18_FallbackOnlyOnStatus ==
    ( /\ StorefrontAttempted
      /\ \/ reply.exc # ""
         \/ (reply.resp.status = 200 /\ ~reply.resp.body.ok) ) =>
        /\ Terminated
        /\ Len(out) = 1
        /\ out[1].kind \in {"error", "proxy_error"}
        /\ out[1].e.msg # "storefront retrieval failed"
        /\ storefront = Unset
        /\ reply.exc # "" =>
             /\ Len(seen) = Len(StorefrontRequests) - 1
             /\ out[1] = IF reply.exc = "ProxyError"
                         THEN [kind |-> "proxy_error", e |-> NoExc, doc |-> Unset]
                         ELSE [kind |-> "error",
                               e |-> [type |-> reply.exc, msg |-> "", status |-> 0],
                               doc |-> Unset]
        /\ reply.exc = "" => out[1].e.type = "JSONDecodeError"

\* the first attempt returned 200 with a body that is not JSON
C18_Witness ==
    /\ StorefrontAttempted
    /\ Len(StorefrontRequests) = 1
    /\ seen = <<200>>
    /\ ~reply.resp.body.ok
    /\ pc = "done"

\* the second attempt raised a connection error
C18_WitnessTransport ==
    /\ StorefrontAttempted
    /\ Len(StorefrontRequests) = 2
    /\ reply.exc = "ConnectionError"
    /\ pc = "done"

----------------------------------------------------------------------------
\* "access_token=" stands at position i of s and a character other than "&"
\* follows it
TokenAt(s, i) ==
    /\ i >= 1
    /\ i + Len(KEY) <= Len(s)
    /\ \A j \in 1..Len(KEY) : s[i + j - 1] = KEY[j]
    /\ s[i + Len(KEY)] # "&"

\* a reply is a redirect that holds a token
HoldsToken(o) ==
    /\ o.exc = ""
    /\ o.resp.status \in {301, 303}
    /\ o.resp.location # None
    /\ \E i \in 1..Len(o.resp.location.v) : TokenAt(o.resp.location.v, i)

(* C19: the status of the authorization-init response has no effect.       *)
(* Whatever status it has, the credential cookie is set and the run stands *)
(* before the reauthorization request, which is then the next request;     *)
(* only a transport error on the init request ends the run there; and      *)
(* whether authenticate returns a token is decided by the reauthorization  *)
(* reply alone.                                                            *)
C19_InitStatusIgnored ==
    [][ /\ pc = "authenticate_post" =>
             /\ Len(trace') = 1
             /\ IF reply'.exc = ""
                THEN /\ pc' = "authenticate_get"
                     /\ session'.cookies = SSID
                     /\ out' = <<>>
                ELSE /\ pc' = "done"
                     /\ Len(out') = 1
        /\ pc = "authenticate_get" =>
             /\ reply.exc = ""
             /\ Len(trace') = 2
             /\ Last(trace').method = "GET"
             /\ Last(trace').url = "https://auth.riotgames.com/authorize"
             /\ IF HoldsToken(reply')
                THEN pc' = "get_entitlements_token" /\ out' = <<>>
                ELSE pc' = "done" /\ Len(out') = 1 /\ access_token' = Unset
      ]_vars

\* after a 500 from the init endpoint the handshake went on and succeeded
C19_Witness ==
    /\ Len(trace) = 1
    /\ reply.exc = ""
    /\ reply.resp.status = 500
    /\ pc = "authenticate_get"
    /\ session.cookies = Str(<<"s">>)

----------------------------------------------------------------------------
(* C20: an access token returned by authenticate is a non-empty string     *)
(* without "&".  A redirect whose Location holds "access_token=" only      *)
(* where "&" or the end of the string follows it ends the run with the     *)
(* token-extraction line instead of yielding an empty token, and no        *)
(* request carries an empty bearer token.                                  *)
C20_TokenNeverEmpty ==
    /\ access_token # Unset =>
         /\ access_token.t = "str"
         /\ access_token.v # <<>>
         /\ \A i \in 1..Len(access_token.v) : access_token.v[i] # "&"
    /\ ( /\ ReauthAnswered
         /\ reply.resp.status \in {301, 303}
         /\ reply.resp.location # None
         /\ Contains(reply.resp.location.v, KEY)
         /\ ~\E i \in 1..Len(reply.resp.location.v) :
                TokenAt(reply.resp.location.v, i) ) =>
           /\ Terminated
           /\ Len(out) = 1
           /\ out[1].kind = "error"
           /\ out[1].e.msg = "access token not found"
           /\ access_token = Unset
           /\ Len(trace) = 2
    /\ \A i \in 1..Len(trace) :
         trace[i].Authorization # Unset =>
           /\ trace[i].Authorization.t = "str"
           /\ trace[i].Authorization.v # <<>>

\* "access_token=" twice, once before "&" and once at the end
C20_Witness ==
    /\ ReauthAnswered
    /\ reply.resp.status = 303
    /\ reply.resp.location = Str(KEY \o <<"&">> \o KEY)
    /\ pc = "done"
    /\ access_token = Unset

====
